---- MODULE Spec2Model ----
(***************************************************************************)
(* Model of the kata scaffolding tool.                                     *)
(*                                                                         *)
(*   - Repo.file_urls / Repo.get_files_in_dir (src/kata/github/repo.py):   *)
(*     the recursive walk of a remote directory tree, every sub-directory  *)
(*     expanded by a task submitted to a shared executor, the parent       *)
(*     joining on its children's futures.                                  *)
(*   - InitKataService.init_kata (src/kata/domain/services.py).            *)
(*                                                                         *)
(* Strings are sequences of one-character strings, so that concatenation   *)
(* and str.lstrip are computed and not assumed.                            *)
(***************************************************************************)
EXTENDS Integers, Sequences, FiniteSets, TLC

VARIABLES
    repo_tree,      \* the remote repository: canonical entry path -> entry type
    failing,        \* canonical directory paths whose listing call errors
    lenient,        \* whether the remote resolves a path with leading separators
    pool_size,      \* number of workers of the executor
    caller_pc,      \* "idle" | "called" | "returned" | "raised": the file_urls call
    root_path,      \* the path argument of file_urls
    tasks,          \* the get_files_in_dir invocations, tasks[1] is the root call
    queue,          \* the executor's work queue (task ids, FIFO)
    calls,          \* the paths api.contents was called with, in call order
    result,         \* what file_urls returned
    error,          \* what file_urls raised
    svc_env,        \* init_kata's collaborators: the repos' contents, the grepo's answer
    svc_args,       \* the arguments of the init_kata call
    svc_pc,         \* where the init_kata call stands
    svc_local,      \* init_kata's locals: kata_template, path, files_to_download
    svc_error,      \* the exception init_kata raised
    grepo_calls,    \* the calls made on the grepo, in order
    fs_dirs,        \* the directories that exist
    fs_files        \* the files written

walkerVars == <<repo_tree, failing, lenient, pool_size, caller_pc, root_path, tasks,
                queue, calls, result, error>>

svcVars == <<svc_env, svc_args, svc_pc, svc_local, svc_error, grepo_calls,
             fs_dirs, fs_files>>

vars == <<walkerVars, svcVars>>

----------------------------------------------------------------------------
\* Bounds of the model.

\* Largest number of entries (files, directories, others) in the repository.
MaxEntries == 3

\* Largest number of workers of the executor.
MaxWorkers == 2

\* Largest number of directories whose listing errors although they exist.
MaxFailures == 1

----------------------------------------------------------------------------
\* Strings.

Slash == "/"

\* The segment names that occur in the repository, in the remote's order.
NameSeq == << <<"a">>, <<"b">> >>

Names == {NameSeq[i] : i \in 1..Len(NameSeq)}

\* Python's None: no string, and not the empty string.
None == <<"None">>

\* str.lstrip('/'): every leading separator is removed.
RECURSIVE LStrip(_)
LStrip(s) ==
    IF s # <<>> /\ Head(s) = Slash THEN LStrip(Tail(s)) ELSE s

SubDirPathDropsParent(dir_path, name) == name

\* f"{dir_path}/{sub_dir['name']}".lstrip('/')
sub_dir_path(dir_path, name) == LStrip(dir_path \o <<Slash>> \o name)

----------------------------------------------------------------------------
\* The remote repository and its contents API.

EntryTypes == {"file", "dir", "symlink"}

\* The full path of the entry called name in the directory dir (the
\* repository root is the empty path).
ChildPath(dir, name) == IF dir = <<>> THEN name ELSE dir \o <<Slash>> \o name

IsChildOf(p, dir) == \E n \in Names : p = ChildPath(dir, n)

\* The sets of entry paths of at most n entries, each entry's parent in the set.
RECURSIVE Shapes(_)
Shapes(n) ==
    IF n = 0 THEN {{}}
    ELSE LET smaller == Shapes(n - 1)
         IN  smaller \cup
             UNION {{S \cup {ChildPath(d, nm)} : d \in {<<>>} \cup S, nm \in Names} :
                        S \in smaller}

\* A repository: every entry that has children is a directory.
IsTree(t) ==
    \A p \in DOMAIN t :
        (\E q \in DOMAIN t : IsChildOf(q, p)) => t[p] = "dir"

Trees == UNION {{t \in [S -> EntryTypes] : IsTree(t)} : S \in Shapes(MaxEntries)}

IsDir(t, p) == p = <<>> \/ (p \in DOMAIN t /\ t[p] = "dir")

Url(path) == <<"h", ":">> \o path

Entry(t, p, nm) ==
    [type |-> t[p], name |-> nm, path |-> p,
     download_url |-> IF t[p] = "file" THEN Url(p) ELSE None]

\* The entries of directory dir, in the order of their names.
RECURSIVE ListingFrom(_, _, _)
ListingFrom(t, dir, i) ==
    IF i > Len(NameSeq) THEN <<>>
    ELSE LET p == ChildPath(dir, NameSeq[i])
         IN  (IF p \in DOMAIN t THEN <<Entry(t, p, NameSeq[i])>> ELSE <<>>)
             \o ListingFrom(t, dir, i + 1)

Listing(t, dir) == ListingFrom(t, dir, 1)

\* The directory a requested path names, for the remote.
Resolve(path) == IF lenient THEN LStrip(path) ELSE path

\* api.contents(user, repo, path) raises.
ApiFails(path) ==
    \/ ~IsDir(repo_tree, Resolve(path))
    \/ Resolve(path) \in failing

\* api.contents(user, repo, path) when it does not raise.
contents(path) == Listing(repo_tree, Resolve(path))

----------------------------------------------------------------------------
\* Repo.

\* filter_by_type with every entry that is not a file taken for a directory.
FilterByTypeTakesOthersForDirs(listing, content_type) ==
    SelectSeq(listing, LAMBDA entry :
        \/ entry.type = content_type
        \/ content_type = "dir" /\ entry.type # "file")

FilterByTypeIgnoresType(listing, content_type) == listing

filter_by_type(listing, content_type) ==
    SelectSeq(listing, LAMBDA entry : entry.type = content_type)

FormatResultSwapsFields(files) ==
    [i \in 1..Len(files) |->
        [file_path |-> files[i].download_url, download_url |-> files[i].path]]

format_result(files) ==
    [i \in 1..Len(files) |->
        [file_path |-> files[i].path, download_url |-> files[i].download_url]]

MergedDropsSubDirs(files, all_sub_dir_files) == files

\* files + get_files_in_all_sub_dirs_async()
Merged(files, all_sub_dir_files) == files \o all_sub_dir_files

NoExc == [type |-> "none", call |-> 0, sub_path |-> <<>>]

\* The exception the n-th call of api.contents raises.
RemoteLookupError(n) == [type |-> "RemoteLookupError", call |-> n, sub_path |-> <<>>]

ReraisedAsTraversalError(exc) == [exc EXCEPT !.type = "TraversalError"]

\* sub_dir_files_future.result() when the child raised exc: exc itself.
Reraised(exc) == exc

\* A get_files_in_dir invocation, before it runs.
NewTask(path, parent, pc) ==
    [path |-> path, parent |-> parent, pc |-> pc,
     files |-> <<>>, sub_dirs |-> <<>>, futures |-> <<>>, consumed |-> {},
     all_sub_dir_files |-> <<>>, result |-> <<>>, exc |-> NoExc]

TaskIds == 1..Len(tasks)

Root == 1

Running(t) == tasks[t].pc \in {"list", "submit", "join"}

Finished(t) == tasks[t].pc \in {"done", "failed"}

\* Workers that hold a task: a task keeps its worker until it returns or raises.
Busy == Cardinality({t \in TaskIds : t # Root /\ Running(t)})

----------------------------------------------------------------------------
\* InitKataService and its collaborators.

\* config.KATA_GITHUB_REPO_USER and config.KATA_GITHUB_REPO_REPO.
KATA_GITHUB_REPO_USER == "KATA_GITHUB_REPO_USER"

KATA_GITHUB_REPO_REPO == "KATA_GITHUB_REPO_REPO"

LowerCase ==
    {"a", "b", "c", "d", "e", "f", "g", "h", "i", "j", "k", "l", "m",
     "n", "o", "p", "q", "r", "s", "t", "u", "v", "w", "x", "y", "z"}

\* kata_name.split(' ') has more than one part.
has_spaces(kata_name) == \E i \in 1..Len(kata_name) : kata_name[i] = " "

\* re.match(r'^[_a-z]*$', kata_name): $ also matches before a final newline.
MatchesNameRegex(kata_name) ==
    LET body == IF kata_name # <<>> /\ kata_name[Len(kata_name)] = "\n"
                THEN SubSeq(kata_name, 1, Len(kata_name) - 1)
                ELSE kata_name
    IN  \A i \in 1..Len(body) : body[i] \in LowerCase \cup {"_"}

\* The exception _validate_kata_name raises, "none" when it raises none.
validate_kata_name(kata_name) ==
    IF kata_name = <<>> THEN "InvalidKataName"
    ELSE IF has_spaces(kata_name) THEN "InvalidKataName"
    ELSE IF ~MatchesNameRegex(kata_name) THEN "InvalidKataName"
    ELSE "none"

KataTemplate(language, template_name) ==
    [language |-> language, template_name |-> template_name]

NoTemplate == KataTemplate(<<>>, None)

\* kata_template_repo.get_for_language(kata_language)
get_for_language(env, language) ==
    [i \in 1..Len(env.templates[language]) |->
        KataTemplate(language, env.templates[language][i])]

\* first_found_or_raise: the index of the first template called
\* template_name, 0 when there is none.
first_found(templates_for_language, template_name) ==
    LET found == {i \in 1..Len(templates_for_language) :
                     templates_for_language[i].template_name = template_name}
    IN  IF found = {} THEN 0
        ELSE CHOOSE i \in found : \A j \in found : i <= j

\* Python's truth value of an Optional[str].
Truthy(x) == x # None /\ x # <<>>

BuildPathAlwaysJoins(kata_template) ==
    kata_template.language \o <<Slash>> \o kata_template.template_name

_build_path(kata_template) ==
    IF Truthy(kata_template.template_name)
    THEN kata_template.language \o <<Slash>> \o kata_template.template_name
    ELSE kata_template.language

KataDirIsParentDir(parent_dir, kata_name) == parent_dir

\* parent_dir / kata_name
KataDir(parent_dir, kata_name) == parent_dir \o <<Slash>> \o kata_name

NoArgs == [parent_dir |-> <<>>, kata_name |-> <<>>,
           template_language |-> <<>>, template_name |-> None]

NoLocal == [kata_template |-> NoTemplate, path |-> <<>>, files_to_download |-> <<>>]

GRepoCall(method, path, location, files) ==
    [method |-> method, user |-> KATA_GITHUB_REPO_USER, repo |-> KATA_GITHUB_REPO_REPO,
     path |-> path, location |-> location, files |-> files]

\* The directories that exist before init_kata is called.
ExistingDirs == {<<"p">>}

SvcIdle ==
    /\ svc_env = [languages |-> {}, templates |-> <<>>,
                  grepo_raises |-> FALSE, grepo_files |-> <<>>]
    /\ svc_args = NoArgs
    /\ svc_pc = "idle"
    /\ svc_local = NoLocal
    /\ svc_error = "none"
    /\ grepo_calls = <<>>
    /\ fs_dirs = ExistingDirs
    /\ fs_files = {}

WalkerIdle ==
    /\ repo_tree = <<>>
    /\ failing = {}
    /\ lenient = FALSE
    /\ pool_size = 1
    /\ caller_pc = "idle"
    /\ root_path = <<>>
    /\ tasks = <<>>
    /\ queue = <<>>
    /\ calls = <<>>
    /\ result = <<>>
    /\ error = NoExc

Init ==
    /\ repo_tree \in Trees
    /\ failing \in {F \in SUBSET ({<<>>} \cup {p \in DOMAIN repo_tree : repo_tree[p] = "dir"}) :
                        Cardinality(F) <= MaxFailures}
    /\ lenient \in BOOLEAN
    /\ pool_size \in 1..MaxWorkers
    /\ caller_pc = "idle"
    /\ root_path = <<>>
    /\ tasks = <<>>
    /\ queue = <<>>
    /\ calls = <<>>
    /\ result = <<>>
    /\ error = NoExc
    /\ SvcIdle

\* The paths file_urls is called with.
RootPaths ==
    {<<>>, <<"a">>, <<"a", Slash, "b">>, <<Slash>>, <<Slash, "a">>}

\* file_urls(user, repo, path): the root get_files_in_dir runs on the caller.
FileUrls(path) ==
    /\ caller_pc = "idle"
    /\ caller_pc' = "called"
    /\ root_path' = path
    /\ tasks' = <<NewTask(path, 0, "list")>>
    /\ UNCHANGED svcVars
    /\ UNCHANGED <<repo_tree, failing, lenient, pool_size, queue, calls, result, error>>

\* Raise with the queued sub-expansions of the raising task cancelled.
RaiseCancelsQueued(t, exc) ==
    /\ tasks' = [k \in 1..Len(tasks) |->
           IF k = t THEN [tasks[k] EXCEPT !.pc = "failed", !.exc = exc]
           ELSE IF tasks[k].parent = t /\ tasks[k].pc = "queued"
                THEN [tasks[k] EXCEPT !.pc = "failed"]
                ELSE tasks[k]]
    /\ IF t = Root
       THEN caller_pc' = "raised" /\ error' = exc
       ELSE UNCHANGED <<caller_pc, error>>
    /\ UNCHANGED result

\* The state of the caller once task t has raised exc.
Raise(t, exc) ==
    /\ tasks' = [tasks EXCEPT ![t].pc = "failed", ![t].exc = exc]
    /\ IF t = Root
       THEN caller_pc' = "raised" /\ error' = exc
       ELSE UNCHANGED <<caller_pc, error>>
    /\ UNCHANGED result

\* Start with one worker of the pool never used.
StartKeepsOneWorkerIdle(t) ==
    /\ queue # <<>>
    /\ t = Head(queue)
    /\ Busy + 1 < pool_size
    /\ queue' = Tail(queue)
    /\ tasks' = [tasks EXCEPT ![t].pc = "list"]
    /\ UNCHANGED svcVars
    /\ UNCHANGED <<repo_tree, failing, lenient, pool_size, caller_pc, root_path,
                   calls, result, error>>

\* A free worker takes the oldest queued task.
Start(t) ==
    /\ queue # <<>>
    /\ t = Head(queue)
    /\ Busy < pool_size
    /\ queue' = Tail(queue)
    /\ tasks' = [tasks EXCEPT ![t].pc = "list"]
    /\ UNCHANGED svcVars
    /\ UNCHANGED <<repo_tree, failing, lenient, pool_size, caller_pc, root_path,
                   calls, result, error>>

\* Contents with a failed listing taken for an empty one.
ContentsSwallowsError(t) ==
    /\ tasks[t].pc = "list"
    /\ calls' = Append(calls, tasks[t].path)
    /\ LET dir_contents == IF ApiFails(tasks[t].path) THEN <<>> ELSE contents(tasks[t].path)
           sub_dirs == filter_by_type(dir_contents, "dir")
       IN  /\ tasks' = [tasks EXCEPT
                  ![t].files = filter_by_type(dir_contents, "file"),
                  ![t].sub_dirs = sub_dirs,
                  ![t].pc = IF sub_dirs = <<>> THEN "join" ELSE "submit"]
           /\ UNCHANGED <<caller_pc, result, error>>
    /\ UNCHANGED svcVars
    /\ UNCHANGED <<repo_tree, failing, lenient, pool_size, root_path, queue>>

\* Contents with the listing requested a second time.
ContentsListsTwice(t) ==
    /\ tasks[t].pc = "list"
    /\ calls' = calls \o <<tasks[t].path, tasks[t].path>>
    /\ IF ApiFails(tasks[t].path)
       THEN Raise(t, RemoteLookupError(Len(calls) + 1))
       ELSE LET dir_contents == contents(tasks[t].path)
                sub_dirs == filter_by_type(dir_contents, "dir")
            IN  /\ tasks' = [tasks EXCEPT
                       ![t].files = filter_by_type(dir_contents, "file"),
                       ![t].sub_dirs = sub_dirs,
                       ![t].pc = IF sub_dirs = <<>> THEN "join" ELSE "submit"]
                /\ UNCHANGED <<caller_pc, result, error>>
    /\ UNCHANGED svcVars
    /\ UNCHANGED <<repo_tree, failing, lenient, pool_size, root_path, queue>>

\* dir_contents = self.api.contents(...) and the two filter_by_type calls.
Contents(t) ==
    /\ tasks[t].pc = "list"
    /\ calls' = Append(calls, tasks[t].path)
    /\ IF ApiFails(tasks[t].path)
       THEN Raise(t, RemoteLookupError(Len(calls) + 1))
       ELSE LET dir_contents == contents(tasks[t].path)
                sub_dirs == filter_by_type(dir_contents, "dir")
            IN  /\ tasks' = [tasks EXCEPT
                       ![t].files = filter_by_type(dir_contents, "file"),
                       ![t].sub_dirs = sub_dirs,
                       ![t].pc = IF sub_dirs = <<>> THEN "join" ELSE "submit"]
                /\ UNCHANGED <<caller_pc, result, error>>
    /\ UNCHANGED svcVars
    /\ UNCHANGED <<repo_tree, failing, lenient, pool_size, root_path, queue>>

\* Submit with the wait started right after the first submission.
SubmitThenWait(t) ==
    /\ tasks[t].pc = "submit"
    /\ LET i == Len(tasks[t].futures) + 1
           id == Len(tasks) + 1
           path == sub_dir_path(tasks[t].path, tasks[t].sub_dirs[i].name)
       IN  /\ tasks' = Append(
                  [tasks EXCEPT ![t].futures = Append(@, id),
                                ![t].pc = "join"],
                  NewTask(path, t, "queued"))
           /\ queue' = Append(queue, id)
    /\ UNCHANGED svcVars
    /\ UNCHANGED <<repo_tree, failing, lenient, pool_size, caller_pc, root_path,
                   calls, result, error>>

\* One turn of the loop over sub_dirs: executor.submit(get_files_in_dir, ...).
Submit(t) ==
    /\ tasks[t].pc = "submit"
    /\ LET i == Len(tasks[t].futures) + 1
           id == Len(tasks) + 1
           path == sub_dir_path(tasks[t].path, tasks[t].sub_dirs[i].name)
       IN  /\ tasks' = Append(
                  [tasks EXCEPT ![t].futures = Append(@, id),
                                ![t].pc = IF i = Len(tasks[t].sub_dirs)
                                          THEN "join" ELSE "submit"],
                  NewTask(path, t, "queued"))
           /\ queue' = Append(queue, id)
    /\ UNCHANGED svcVars
    /\ UNCHANGED <<repo_tree, failing, lenient, pool_size, caller_pc, root_path,
                   calls, result, error>>

\* Collect with a failed child taken for one that found no file.
CollectIgnoresFailure(t, c) ==
    /\ tasks[t].pc = "join"
    /\ \E i \in 1..Len(tasks[t].futures) : tasks[t].futures[i] = c
    /\ c \notin tasks[t].consumed
    /\ Finished(c)
    /\ tasks' = [tasks EXCEPT
           ![t].consumed = @ \cup {c},
           ![t].all_sub_dir_files = @ \o tasks[c].result]
    /\ UNCHANGED <<caller_pc, result, error>>
    /\ UNCHANGED svcVars
    /\ UNCHANGED <<repo_tree, failing, lenient, pool_size, root_path, queue, calls>>

\* Collect with the result of any finished task taken, not only a child's.
CollectFromAnyTask(t, c) ==
    /\ tasks[t].pc = "join"
    /\ c # t
    /\ c \notin tasks[t].consumed
    /\ Finished(c)
    /\ IF tasks[c].pc = "failed"
       THEN Raise(t, Reraised(tasks[c].exc))
       ELSE /\ tasks' = [tasks EXCEPT
                   ![t].consumed = @ \cup {c},
                   ![t].all_sub_dir_files = @ \o tasks[c].result]
            /\ UNCHANGED <<caller_pc, result, error>>
    /\ UNCHANGED svcVars
    /\ UNCHANGED <<repo_tree, failing, lenient, pool_size, root_path, queue, calls>>

\* One turn of the loop over as_completed(...): future.result() of a child
\* that has finished, which re-raises the child's exception.
Collect(t, c) ==
    /\ tasks[t].pc = "join"
    /\ \E i \in 1..Len(tasks[t].futures) : tasks[t].futures[i] = c
    /\ c \notin tasks[t].consumed
    /\ Finished(c)
    /\ IF tasks[c].pc = "failed"
       THEN Raise(t, Reraised(tasks[c].exc))
       ELSE /\ tasks' = [tasks EXCEPT
                   ![t].consumed = @ \cup {c},
                   ![t].all_sub_dir_files = @ \o tasks[c].result]
            /\ UNCHANGED <<caller_pc, result, error>>
    /\ UNCHANGED svcVars
    /\ UNCHANGED <<repo_tree, failing, lenient, pool_size, root_path, queue, calls>>

\* Return without the wait for the children not yet taken.
ReturnBeforeJoin(t) ==
    /\ tasks[t].pc = "join"
    /\ LET files == Merged(tasks[t].files, tasks[t].all_sub_dir_files)
       IN  /\ tasks' = [tasks EXCEPT ![t].pc = "done", ![t].result = files]
           /\ IF t = Root
              THEN caller_pc' = "returned" /\ result' = format_result(files)
              ELSE UNCHANGED <<caller_pc, result>>
    /\ UNCHANGED svcVars
    /\ UNCHANGED <<repo_tree, failing, lenient, pool_size, root_path, queue, calls, error>>

\* return files + get_files_in_all_sub_dirs_async(), and for the root call
\* file_urls' return self.format_result(files).
Return(t) ==
    /\ tasks[t].pc = "join"
    /\ tasks[t].consumed = {tasks[t].futures[i] : i \in 1..Len(tasks[t].futures)}
    /\ LET files == Merged(tasks[t].files, tasks[t].all_sub_dir_files)
       IN  /\ tasks' = [tasks EXCEPT ![t].pc = "done", ![t].result = files]
           /\ IF t = Root
              THEN caller_pc' = "returned" /\ result' = format_result(files)
              ELSE UNCHANGED <<caller_pc, result>>
    /\ UNCHANGED svcVars
    /\ UNCHANGED <<repo_tree, failing, lenient, pool_size, root_path, queue, calls, error>>

Next ==
    \/ \E path \in RootPaths : FileUrls(path)
    \/ \E t \in TaskIds : Start(t)
    \/ \E t \in TaskIds : Contents(t)
    \/ \E t \in TaskIds : Submit(t)
    \/ \E t \in TaskIds, c \in TaskIds : Collect(t, c)
    \/ \E t \in TaskIds : Return(t)

Spec == Init /\ [][Next]_vars

\* The walker with threads that keep running: the interpreter goes on taking
\* steps as long as the caller or a worker of the pool can take one.
FairSpec == Init /\ [][Next]_vars /\ WF_vars(Next)

----------------------------------------------------------------------------
\* InitKataService.init_kata, a step per statement.

\* The languages of the language repo and the templates of each.
TemplateLists ==
    {<< <<"u">>, <<"h">> >>, << <<"u">> >>, <<None>>, <<>>}

\* What the grepo's get_files_to_download may return.
FileLists ==
    {<<>>,
     <<[file_path |-> <<"f">>, download_url |-> Url(<<"f">>)]>>,
     <<[file_path |-> <<"f">>, download_url |-> Url(<<"f">>)],
       [file_path |-> <<"d", Slash, "g">>, download_url |-> Url(<<"d", Slash, "g">>)]>>}

ParentDirs == {<<"p">>, <<"q">>}

KataNames ==
    {<<>>, <<"k">>, <<"k", "_", "a">>, <<"k", " ", "a">>, <<"K">>, <<"k", "?">>,
     <<"k", "\n">>}

LanguageNames == {<<"j">>, <<"y">>}

TemplateNames == {None, <<"u">>, <<"x">>}

ServiceInit ==
    /\ WalkerIdle
    /\ \E tl \in TemplateLists, raises \in BOOLEAN, files \in FileLists :
           svc_env = [languages |-> {<<"j">>}, templates |-> (<<"j">> :> tl),
                      grepo_raises |-> raises, grepo_files |-> files]
    /\ svc_args = NoArgs
    /\ svc_pc = "idle"
    /\ svc_local = NoLocal
    /\ svc_error = "none"
    /\ grepo_calls = <<>>
    /\ fs_dirs = ExistingDirs
    /\ fs_files = {}

\* init_kata raises exception: nothing after the raising statement runs.
SvcRaise(exception) ==
    /\ svc_pc' = "raised"
    /\ svc_error' = exception

InitKata(parent_dir, kata_name, template_language, template_name) ==
    /\ svc_pc = "idle"
    /\ svc_args' = [parent_dir |-> parent_dir, kata_name |-> kata_name,
                    template_language |-> template_language,
                    template_name |-> template_name]
    /\ svc_pc' = "validate_parent_dir"
    /\ UNCHANGED <<svc_env, svc_local, svc_error, grepo_calls, fs_dirs, fs_files>>
    /\ UNCHANGED walkerVars

ValidateParentDir ==
    /\ svc_pc = "validate_parent_dir"
    /\ IF svc_args.parent_dir \notin fs_dirs
       THEN SvcRaise("FileNotFoundError")
       ELSE svc_pc' = "validate_kata_name" /\ UNCHANGED svc_error
    /\ UNCHANGED <<svc_env, svc_args, svc_local, grepo_calls, fs_dirs, fs_files>>
    /\ UNCHANGED walkerVars

ValidateKataName ==
    /\ svc_pc = "validate_kata_name"
    /\ IF validate_kata_name(svc_args.kata_name) # "none"
       THEN SvcRaise(validate_kata_name(svc_args.kata_name))
       ELSE svc_pc' = "get_kata_template" /\ UNCHANGED svc_error
    /\ UNCHANGED <<svc_env, svc_args, svc_local, grepo_calls, fs_dirs, fs_files>>
    /\ UNCHANGED walkerVars

GetKataTemplate ==
    /\ svc_pc = "get_kata_template"
    /\ IF svc_args.template_language \notin svc_env.languages
       THEN SvcRaise("KataLanguageNotFound") /\ UNCHANGED svc_local
       ELSE LET templates_for_language ==
                    get_for_language(svc_env, svc_args.template_language)
                found == first_found(templates_for_language, svc_args.template_name)
            IN  IF Len(templates_for_language) = 1
                THEN /\ svc_local' = [svc_local EXCEPT
                            !.kata_template = templates_for_language[1]]
                     /\ svc_pc' = "build_path"
                     /\ UNCHANGED svc_error
                ELSE IF found # 0
                THEN /\ svc_local' = [svc_local EXCEPT
                            !.kata_template = templates_for_language[found]]
                     /\ svc_pc' = "build_path"
                     /\ UNCHANGED svc_error
                ELSE SvcRaise("KataTemplateTemplateNameNotFound") /\ UNCHANGED svc_local
    /\ UNCHANGED <<svc_env, svc_args, grepo_calls, fs_dirs, fs_files>>
    /\ UNCHANGED walkerVars

BuildPath ==
    /\ svc_pc = "build_path"
    /\ svc_local' = [svc_local EXCEPT !.path = _build_path(svc_local.kata_template)]
    /\ svc_pc' = "get_files_to_download"
    /\ UNCHANGED <<svc_env, svc_args, svc_error, grepo_calls, fs_dirs, fs_files>>
    /\ UNCHANGED walkerVars

\* GetFilesToDownload with the grepo's exception caught and no file fetched.
GetFilesToDownloadSwallowsError ==
    /\ svc_pc = "get_files_to_download"
    /\ grepo_calls' = Append(grepo_calls,
           GRepoCall("get_files_to_download", svc_local.path, <<>>, <<>>))
    /\ svc_local' = [svc_local EXCEPT !.files_to_download =
           IF svc_env.grepo_raises THEN <<>> ELSE svc_env.grepo_files]
    /\ svc_pc' = "download_files_at_location"
    /\ UNCHANGED <<svc_env, svc_args, svc_error, fs_dirs, fs_files>>
    /\ UNCHANGED walkerVars

\* files_to_download = self._grepo.get_files_to_download(user=, repo=, path=)
GetFilesToDownload ==
    /\ svc_pc = "get_files_to_download"
    /\ grepo_calls' = Append(grepo_calls,
           GRepoCall("get_files_to_download", svc_local.path, <<>>, <<>>))
    /\ IF svc_env.grepo_raises
       THEN SvcRaise("GRepoError") /\ UNCHANGED svc_local
       ELSE /\ svc_local' = [svc_local EXCEPT !.files_to_download = svc_env.grepo_files]
            /\ svc_pc' = "download_files_at_location"
            /\ UNCHANGED svc_error
    /\ UNCHANGED <<svc_env, svc_args, fs_dirs, fs_files>>
    /\ UNCHANGED walkerVars

\* self._grepo.download_files_at_location(kata_dir, files_to_download): the
\* grepo makes the directory and writes every file below it.
DownloadFilesAtLocation ==
    /\ svc_pc = "download_files_at_location"
    /\ LET kata_dir == KataDir(svc_args.parent_dir, svc_args.kata_name)
           files == svc_local.files_to_download
       IN  /\ grepo_calls' = Append(grepo_calls,
                  GRepoCall("download_files_at_location", <<>>, kata_dir, files))
           /\ fs_dirs' = fs_dirs \cup {kata_dir}
           /\ fs_files' = fs_files \cup
                  {kata_dir \o <<Slash>> \o files[i].file_path : i \in 1..Len(files)}
    /\ svc_pc' = "done"
    /\ UNCHANGED <<svc_env, svc_args, svc_local, svc_error>>
    /\ UNCHANGED walkerVars

ServiceNext ==
    \/ \E parent_dir \in ParentDirs, kata_name \in KataNames,
          template_language \in LanguageNames, template_name \in TemplateNames :
           InitKata(parent_dir, kata_name, template_language, template_name)
    \/ ValidateParentDir
    \/ ValidateKataName
    \/ GetKataTemplate
    \/ BuildPath
    \/ GetFilesToDownload
    \/ DownloadFilesAtLocation

ServiceSpec == ServiceInit /\ [][ServiceNext]_vars

----------------------------------------------------------------------------
\* What the claims speak of.

\* Entry path p lies below the directory dir.
Below(dir, p) ==
    \/ dir = <<>>
    \/ /\ Len(p) > Len(dir) + 1
       /\ SubSeq(p, 1, Len(dir)) = dir
       /\ p[Len(dir) + 1] = Slash

Called == caller_pc # "idle"

\* The directory the remote serves for the root path.
RootDir == Resolve(root_path)

ReachableFilePaths ==
    {p \in DOMAIN repo_tree : repo_tree[p] = "file" /\ Below(RootDir, p)}

ReachableDirPaths ==
    {p \in DOMAIN repo_tree : repo_tree[p] = "dir" /\ Below(RootDir, p)}

Count(seq, x) == Cardinality({i \in 1..Len(seq) : seq[i] = x})

Descriptor(p) == [file_path |-> p, download_url |-> Url(p)]

\* The listing entries the traversal has met: those of the listings that
\* api.contents returned.
EntriesMet ==
    {<<k, j>> \in (1..Len(calls)) \X (1..Len(NameSeq)) :
        ~ApiFails(calls[k]) /\ j <= Len(contents(calls[k]))}

EntryMet(kj) == contents(calls[kj[1]])[kj[2]]

\* The listing of an existing, reachable directory below the root errors.
NestedFailure == Called /\ ~ApiFails(root_path) /\ ReachableDirPaths \cap failing # {}

----------------------------------------------------------------------------
\* C1 (completeness): when file_urls returns, the returned list holds the
\* descriptor of every file below the root path exactly once, and nothing else.
C1_Completeness ==
    caller_pc = "returned" =>
        /\ \A p \in ReachableFilePaths : Count(result, Descriptor(p)) = 1
        /\ \A i \in 1..Len(result) :
               \E p \in ReachableFilePaths : result[i] = Descriptor(p)

\* A returned walk that found a file through two nested expansions.
C1_Witness ==
    /\ caller_pc = "returned"
    /\ Len(tasks) >= 3
    /\ \E i \in 1..Len(result) : Len(result[i].file_path) >= 5

\* C2 (termination): a file_urls call that has not finished can always take
\* a step, whatever the size of the pool: it is never blocked for good.
C2_NeverBlockedForGood ==
    caller_pc = "called" => ENABLED Next

\* C3 (fail-fast): when the listing of a directory below the root errors,
\* file_urls never returns a list, and once the root call has ended it has
\* raised the listing's error.
C3_FailFast ==
    NestedFailure =>
        /\ caller_pc # "returned"
        /\ result = <<>>
        /\ Finished(Root) =>
               caller_pc = "raised" /\ error.type \in {"RemoteLookupError", "TraversalError"}

\* file_urls has raised although a sibling branch was expanded and found files.
C3_Witness ==
    /\ NestedFailure
    /\ caller_pc = "raised"
    /\ \E t \in TaskIds : t # Root /\ tasks[t].pc = "done" /\ tasks[t].result # <<>>

\* C4 (root failure): when the listing of the root path errors, file_urls has
\* raised as soon as the call was made, no task was submitted and no other
\* listing was requested.
C4_RootFailure ==
    (Called /\ ApiFails(root_path) /\ calls # <<>>) =>
        /\ caller_pc = "raised"
        /\ Len(tasks) = 1
        /\ queue = <<>>
        /\ calls = <<root_path>>

\* The root listing errored for a directory that exists and has sub-directories.
C4_Witness ==
    /\ caller_pc = "raised"
    /\ RootDir \in failing
    /\ ReachableDirPaths # {}
    /\ calls = <<root_path>>

\* C5 (output shape): every returned element is the path and download_url of
\* exactly one listing entry met, that entry is of type file, and no entry of
\* another type has the path of a returned element.
C5_OutputShape ==
    caller_pc = "returned" =>
        \A i \in 1..Len(result) :
            /\ Cardinality({kj \in EntriesMet :
                   /\ EntryMet(kj).type = "file"
                   /\ result[i].file_path = EntryMet(kj).path
                   /\ result[i].download_url = EntryMet(kj).download_url}) = 1
            /\ \A kj \in EntriesMet :
                   EntryMet(kj).type # "file" => result[i].file_path # EntryMet(kj).path

\* A returned list with a file, from a walk that met a directory and a file.
C5_Witness ==
    /\ caller_pc = "returned"
    /\ result # <<>>
    /\ \E kj \in EntriesMet : EntryMet(kj).type = "dir"

\* The root listing succeeds and holds no directory entry.
FlatRoot ==
    /\ Called
    /\ ~ApiFails(root_path)
    /\ \A j \in 1..Len(contents(root_path)) : contents(root_path)[j].type # "dir"

\* The file entries of a listing from index j on, converted in order.
RECURSIVE FilesConverted(_, _)
FilesConverted(listing, j) ==
    IF j > Len(listing) THEN <<>>
    ELSE (IF listing[j].type = "file"
          THEN <<[file_path |-> listing[j].path,
                  download_url |-> listing[j].download_url]>>
          ELSE <<>>) \o FilesConverted(listing, j + 1)

\* C6 (flat root): with a root listing without directory entry, no task is
\* ever submitted, at most one listing is requested, nothing is raised, the
\* call can always go on, and it returns the listing's files converted in
\* order after exactly one listing call.
C6_FlatRoot ==
    FlatRoot =>
        /\ Len(tasks) = 1
        /\ queue = <<>>
        /\ caller_pc # "raised"
        /\ Len(calls) <= 1
        /\ caller_pc = "called" => ENABLED Next
        /\ caller_pc = "returned" =>
               /\ result = FilesConverted(contents(root_path), 1)
               /\ calls = <<root_path>>

\* A flat root with two files has returned.
C6_Witness ==
    /\ FlatRoot
    /\ caller_pc = "returned"
    /\ Len(result) = 2

\* The entry name task t was submitted for by its parent.
SubmittedName(t) ==
    LET par == tasks[t].parent
        i == CHOOSE k \in 1..Len(tasks[par].futures) : tasks[par].futures[k] = t
    IN  tasks[par].sub_dirs[i].name

\* C7 as stated (path construction): every submitted expansion has the path
\* dir_path + "/" + name, or name alone when dir_path is empty.
C7_PathAsStated ==
    \A t \in TaskIds :
        t # Root =>
            LET dir_path == tasks[tasks[t].parent].path
            IN  tasks[t].path = IF dir_path = <<>>
                                THEN SubmittedName(t)
                                ELSE dir_path \o <<Slash>> \o SubmittedName(t)

\* n separators.
RECURSIVE Slashes(_)
Slashes(n) == IF n = 0 THEN <<>> ELSE <<Slash>> \o Slashes(n - 1)

\* C7 as amended: the path is dir_path + "/" + name with its leading
\* separators removed: name when dir_path is empty, dir_path + "/" + name when
\* dir_path is not empty and does not begin with a separator, and otherwise
\* what is left of dir_path + "/" + name behind its leading separators.
C7_PathConstruction ==
    \A t \in TaskIds :
        t # Root =>
            LET dir_path == tasks[tasks[t].parent].path
                name == SubmittedName(t)
                joined == dir_path \o <<Slash>> \o name
            IN  /\ dir_path = <<>> => tasks[t].path = name
                /\ (dir_path # <<>> /\ Head(dir_path) # Slash) => tasks[t].path = joined
                /\ (dir_path # <<>> /\ Head(dir_path) = Slash) =>
                       /\ tasks[t].path # <<>>
                       /\ Head(tasks[t].path) # Slash
                       /\ \E n \in 1..Len(joined) : joined = Slashes(n) \o tasks[t].path

\* Expansions were submitted under the empty path and under a nested path.
C7_Witness ==
    /\ \E t \in TaskIds : t # Root /\ tasks[tasks[t].parent].path = <<>>
    /\ \E t \in TaskIds :
           /\ t # Root
           /\ Len(tasks[tasks[t].parent].path) >= 1
           /\ Head(tasks[tasks[t].parent].path) # Slash

\* C8 (one listing per directory): when no listing errors, api.contents is
\* never called twice with one path nor with a path that is neither the root
\* path nor a directory below it, and when file_urls returns it was called
\* once with the root path and once with every directory below it.
C8_OneListingPerDirectory ==
    (Called /\ ~ApiFails(root_path) /\ ReachableDirPaths \cap failing = {}) =>
        /\ \A k \in 1..Len(calls) :
               /\ Count(calls, calls[k]) = 1
               /\ calls[k] = root_path \/ calls[k] \in ReachableDirPaths
        /\ caller_pc # "raised"
        /\ caller_pc = "returned" =>
               /\ Count(calls, root_path) = 1
               /\ \A d \in ReachableDirPaths : Count(calls, d) = 1
               /\ Len(calls) = 1 + Cardinality(ReachableDirPaths)

\* A returned walk over three directories below the root.
C8_Witness ==
    /\ caller_pc = "returned"
    /\ Cardinality(ReachableDirPaths) >= 3
    /\ Len(calls) = 4

\* C9 as stated (error wrapping): the error of a listing below the root
\* reaches the caller as a TraversalError that carries the sub-path.
C9_WrappedAsStated ==
    (caller_pc = "raised" /\ error.call > 1) =>
        /\ error.type = "TraversalError"
        /\ error.sub_path = calls[error.call]

\* C9 as amended: the error file_urls raises is the very exception a failed
\* api.contents call raised in the task that made the call, with nothing
\* wrapped around it and no sub-path added to it.
C9_ErrorUnwrapped ==
    caller_pc = "raised" =>
        /\ error.call \in 1..Len(calls)
        /\ ApiFails(calls[error.call])
        /\ error = RemoteLookupError(error.call)
        /\ \E t \in TaskIds :
               /\ tasks[t].path = calls[error.call]
               /\ tasks[t].pc = "failed"
               /\ tasks[t].exc = error

\* The error of a listing two levels below the root has reached the caller.
C9_Witness ==
    /\ caller_pc = "raised"
    /\ error.call > 1
    /\ \E t \in TaskIds :
           /\ tasks[t].exc = error
           /\ tasks[t].parent # 0
           /\ tasks[t].parent # Root
           /\ tasks[t].path = calls[error.call]

\* The grepo's get_files_to_download was called and raised.
FetchFailed ==
    /\ svc_env.grepo_raises
    /\ \E k \in 1..Len(grepo_calls) : grepo_calls[k].method = "get_files_to_download"

\* C10 (no download after a failed traversal): once get_files_to_download
\* has raised, init_kata has raised that error, download_files_at_location
\* was not called, no directory was made and no file written.
C10_NoDownloadAfterFailedFetch ==
    FetchFailed =>
        /\ svc_pc = "raised"
        /\ svc_error = "GRepoError"
        /\ \A k \in 1..Len(grepo_calls) :
               grepo_calls[k].method # "download_files_at_location"
        /\ fs_dirs = ExistingDirs
        /\ fs_files = {}

\* init_kata has raised the grepo's error for a template path of two segments.
C10_Witness ==
    /\ FetchFailed
    /\ svc_pc = "raised"
    /\ svc_local.path = <<"j", Slash, "u">>

----------------------------------------------------------------------------
\* init_kata's claims.

\* The names of the templates available for the language asked for.
AvailableTemplateNames ==
    LET names == svc_env.templates[svc_args.template_language]
    IN  {names[i] : i \in 1..Len(names)}

\* init_kata has got past get_kata_language_or_raise.
LanguageFound ==
    \/ svc_pc \in {"build_path", "get_files_to_download",
                   "download_files_at_location", "done"}
    \/ svc_pc = "raised" /\ svc_error \in {"KataTemplateTemplateNameNotFound", "GRepoError"}

\* A template name is given and is the name of an available template, or
\* none is given and exactly one template is available.
Resolvable ==
    \/ svc_args.template_name # None /\ svc_args.template_name \in AvailableTemplateNames
    \/ /\ svc_args.template_name = None
       /\ Len(svc_env.templates[svc_args.template_language]) = 1

\* C11 (template resolution): once the language is found, a template is
\* resolved only in the two resolvable cases; in every other case init_kata
\* has raised the template-not-found error and has called the grepo for nothing.
C11_TemplateResolution ==
    (LanguageFound /\ ~Resolvable) =>
        /\ svc_pc = "raised"
        /\ svc_error = "KataTemplateTemplateNameNotFound"
        /\ grepo_calls = <<>>

\* The template path init_kata is to fetch, from the template it resolved.
ExpectedPath ==
    LET kata_template == svc_local.kata_template
    IN  IF kata_template.template_name = None
        THEN kata_template.language
        ELSE kata_template.language \o <<Slash>> \o kata_template.template_name

\* C12 (fetch path): a finished init_kata has called get_files_to_download
\* once, with the configured user and repo, and with the path "<language>"
\* for a template without name and "<language>/<templateName>" otherwise.
C12_FetchPath ==
    svc_pc = "done" =>
        /\ Cardinality({k \in 1..Len(grepo_calls) :
               grepo_calls[k].method = "get_files_to_download"}) = 1
        /\ \A k \in 1..Len(grepo_calls) :
               grepo_calls[k].method = "get_files_to_download" =>
                   /\ grepo_calls[k].user = KATA_GITHUB_REPO_USER
                   /\ grepo_calls[k].repo = KATA_GITHUB_REPO_REPO
                   /\ grepo_calls[k].path = ExpectedPath
        /\ svc_local.kata_template.language = svc_args.template_language
        /\ svc_local.kata_template.template_name \in AvailableTemplateNames

\* init_kata has finished for the only template of the language, one
\* without name, and has fetched the language's own directory.
C12_Witness ==
    /\ svc_pc = "done"
    /\ svc_local.kata_template.template_name = None
    /\ grepo_calls[1].path = <<"j">>

\* C13 (hand-off): download_files_at_location is only ever called as the
\* second call on the grepo, after get_files_to_download has returned, and a
\* finished init_kata has called it once, with parent_dir / kata_name and
\* with the very list get_files_to_download returned.
C13_HandOff ==
    /\ \A k \in 1..Len(grepo_calls) :
           grepo_calls[k].method = "download_files_at_location" =>
               /\ k = 2
               /\ grepo_calls[1].method = "get_files_to_download"
               /\ ~svc_env.grepo_raises
    /\ svc_pc = "done" =>
           /\ Len(grepo_calls) = 2
           /\ grepo_calls[2].method = "download_files_at_location"
           /\ grepo_calls[2].location =
                  svc_args.parent_dir \o <<Slash>> \o svc_args.kata_name
           /\ grepo_calls[2].files = svc_env.grepo_files

\* A finished init_kata that handed two files to the download.
C13_Witness ==
    /\ svc_pc = "done"
    /\ Len(grepo_calls) = 2
    /\ Len(grepo_calls[2].files) = 2

\* The kata name is empty, holds a space, or holds a character that is
\* neither a lower-case letter nor the underscore.
KataNameInvalid ==
    \/ svc_args.kata_name = <<>>
    \/ \E i \in 1..Len(svc_args.kata_name) :
           svc_args.kata_name[i] \notin LowerCase \cup {"_"}

\* The error the first failing validation stands for.
ValidationError ==
    IF svc_args.parent_dir \notin ExistingDirs THEN "FileNotFoundError"
    ELSE IF KataNameInvalid THEN "InvalidKataName"
    ELSE "KataLanguageNotFound"

\* C14 (validation before any remote access): with a parent directory that
\* does not exist, an invalid kata name or an unknown language, init_kata
\* never gets past its validations, calls nothing on the grepo, and what it
\* raises is the error of the failing validation.
C14_ValidationFirst ==
    (/\ svc_pc # "idle"
     /\ \/ svc_args.parent_dir \notin ExistingDirs
        \/ KataNameInvalid
        \/ svc_args.template_language \notin svc_env.languages) =>
        /\ svc_pc \in {"validate_parent_dir", "validate_kata_name",
                       "get_kata_template", "raised"}
        /\ grepo_calls = <<>>
        /\ svc_pc = "raised" => svc_error = ValidationError

----------------------------------------------------------------------------
\* The walker's claims on its tasks.

\* The sub-expansion tasks task t has submitted.
Children(t) == {tasks[t].futures[i] : i \in 1..Len(tasks[t].futures)}

\* C16 as stated (join completeness): a call that has returned or raised has
\* no sub-expansion task that is still queued or running.
C16_JoinAsStated ==
    \A t \in TaskIds :
        Finished(t) => \A c \in Children(t) : Finished(c)

\* C16 as amended: a call that has returned has submitted an expansion for
\* every sub-directory and has taken the result of each, all of them
\* returned; a call that has raised has either failed in its own listing,
\* before any submission, or has taken the error of one failed sub-expansion.
C16_JoinCompleteness ==
    \A t \in TaskIds :
        /\ tasks[t].pc = "done" =>
               /\ Len(tasks[t].futures) = Len(tasks[t].sub_dirs)
               /\ tasks[t].consumed = Children(t)
               /\ \A c \in Children(t) : tasks[c].pc = "done"
        /\ tasks[t].pc = "failed" =>
               \/ Children(t) = {} /\ ApiFails(tasks[t].path)
               \/ \E c \in Children(t) :
                      tasks[c].pc = "failed" /\ tasks[c].exc = tasks[t].exc

\* A call has returned after it took the results of two sub-expansions.
C16_Witness ==
    \E t \in TaskIds : tasks[t].pc = "done" /\ Cardinality(Children(t)) = 2

\* The number of directory entries of a listing.
DirCount(listing) ==
    Cardinality({j \in 1..Len(listing) : listing[j].type = "dir"})

\* C17 (breadth-first dispatch): a call that waits, or has waited, for its
\* sub-expansions has submitted exactly one task per directory entry of its
\* listing, each for that entry's path, and while it still submits it has
\* taken no result.
C17_BreadthFirstDispatch ==
    \A t \in TaskIds :
        /\ (tasks[t].pc \in {"join", "done"}
              \/ (tasks[t].pc = "failed" /\ ~ApiFails(tasks[t].path))) =>
               /\ Len(tasks[t].futures) = DirCount(contents(tasks[t].path))
               /\ Len(tasks[t].futures) = Len(tasks[t].sub_dirs)
               /\ \A i \in 1..Len(tasks[t].futures) :
                      /\ tasks[tasks[t].futures[i]].parent = t
                      /\ tasks[tasks[t].futures[i]].path = tasks[t].sub_dirs[i].path
                      /\ tasks[t].sub_dirs[i].type = "dir"
                      /\ \A k \in 1..Len(tasks[t].futures) :
                             tasks[t].futures[k] = tasks[t].futures[i] => k = i
        /\ tasks[t].pc = "submit" =>
               /\ tasks[t].consumed = {}
               /\ tasks[t].all_sub_dir_files = <<>>
               /\ Len(tasks[t].futures) < Len(tasks[t].sub_dirs)

\* Two sibling expansions hold a worker each, their listings not yet made,
\* while their parent waits.
C17_Witness ==
    \E t \in TaskIds :
        /\ tasks[t].pc = "join"
        /\ \E c1, c2 \in Children(t) :
               c1 # c2 /\ tasks[c1].pc = "list" /\ tasks[c2].pc = "list"

\* The step of task t, from its state now to its state next, is one the
\* code of get_files_in_dir takes: nothing ends a task from outside.
OwnStep(t) ==
    /\ tasks[t].pc = "queued" =>
           /\ tasks'[t].pc \in {"queued", "list"}
           /\ tasks'[t].pc = "queued" =>
                  \E k \in 1..Len(queue') : queue'[k] = t
    /\ tasks[t].pc = "list" =>
           /\ tasks'[t].pc \in {"list", "submit", "join", "failed"}
           /\ tasks'[t].pc = "failed" => ApiFails(tasks[t].path)
    /\ tasks[t].pc = "submit" => tasks'[t].pc \in {"submit", "join"}
    /\ tasks[t].pc = "join" =>
           /\ tasks'[t].pc \in {"join", "done", "failed"}
           /\ tasks'[t].pc = "failed" =>
                  \E c \in Children(t) : tasks[c].pc = "failed"
    /\ Finished(t) => tasks'[t] = tasks[t]

\* C18 (no cancellation): a submitted sub-expansion stays queued until a
\* worker takes it, and from then on ends only by its own return, the error
\* of its own listing or the error of one of its own sub-expansions; the
\* failure of a sibling, or of the whole file_urls call, neither removes it
\* from the queue nor keeps it from its listing and its submissions.
C18_NoCancellation ==
    /\ [](\A t \in TaskIds :
              /\ tasks[t].pc = "queued" => \E k \in 1..Len(queue) : queue[k] = t
              /\ tasks[t].pc = "list" => ENABLED Contents(t)
              /\ tasks[t].pc = "submit" => ENABLED Submit(t))
    /\ [](queue # <<>> /\ Busy < pool_size => ENABLED Start(Head(queue)))
    /\ [][\A t \in TaskIds : OwnStep(t)]_vars

\* After file_urls has raised the error of one branch, a sibling branch has
\* made its own listing and submitted a sub-expansion of its own.
C18_Witness ==
    /\ caller_pc = "raised"
    /\ \E t \in TaskIds :
           /\ t # Root
           /\ tasks[t].futures # <<>>
           /\ \E k \in 1..Len(calls) : k > error.call /\ calls[k] = tasks[t].path

----------------------------------------------------------------------------
\* The walk of get_files_in_dir made by one thread, one sub-directory after
\* the other in listing order: what no interleaving can change.
RECURSIVE SequentialWalk(_, _)
SequentialWalk(path, i) ==
    IF ApiFails(path) THEN <<>>
    ELSE LET dir_contents == contents(path)
             sub_dirs == filter_by_type(dir_contents, "dir")
         IN  IF i = 0
             THEN filter_by_type(dir_contents, "file") \o SequentialWalk(path, 1)
             ELSE IF i > Len(sub_dirs) THEN <<>>
             ELSE SequentialWalk(sub_dir_path(path, sub_dirs[i].name), 0)
                      \o SequentialWalk(path, i + 1)

SameBag(s1, s2) ==
    /\ Len(s1) = Len(s2)
    /\ \A i \in 1..Len(s1) : Count(s1, s1[i]) = Count(s2, s1[i])

AllListingsSucceed ==
    Called /\ ~ApiFails(root_path) /\ ReachableDirPaths \cap failing = {}

\* What a step may write: the record of one task (and the records of the
\* tasks it submits), and to a task's all_sub_dir_files only the result
\* of a finished sub-expansion that this task submitted and has not taken yet.
OwnWrite ==
    /\ \A t, u \in TaskIds :
           tasks'[t] # tasks[t] /\ tasks'[u] # tasks[u] => t = u
    /\ \A t \in TaskIds :
           /\ tasks[t].pc = "done" => tasks'[t].result = tasks[t].result
           /\ tasks'[t].files # tasks[t].files =>
                  tasks[t].pc = "list" /\ Len(tasks') = Len(tasks)
           /\ tasks'[t].all_sub_dir_files # tasks[t].all_sub_dir_files =>
                  \E c \in Children(t) \ tasks[t].consumed :
                      /\ tasks[c].pc = "done"
                      /\ tasks'[t].all_sub_dir_files =
                             tasks[t].all_sub_dir_files \o tasks[c].result
                      /\ tasks'[t].consumed = tasks[t].consumed \cup {c}
    /\ \A t \in (1..Len(tasks')) \ TaskIds :
           \/ t = Root /\ caller_pc = "idle"
           \/ /\ tasks'[t].parent \in TaskIds
              /\ tasks'[tasks'[t].parent] # tasks[tasks'[t].parent]

\* C19 (schedule independence): when every listing succeeds, whatever the
\* interleaving, each finished call holds the same multiset of files as the
\* walk made by one thread, and file_urls returns that multiset formatted;
\* a step writes only the record of one task, and a result is merged only
\* into the list of the task that submitted it.
C19_ScheduleIndependence ==
    /\ [](AllListingsSucceed =>
              /\ \A t \in TaskIds :
                     tasks[t].pc = "done" =>
                         SameBag(tasks[t].result, SequentialWalk(tasks[t].path, 0))
              /\ caller_pc = "returned" =>
                     SameBag(result, format_result(SequentialWalk(root_path, 0))))
    /\ [][OwnWrite]_vars

\* A returned walk that found a file below two sibling sub-directories
\* whose listings were made in the order opposite to their submission.
C19_Witness ==
    /\ AllListingsSucceed
    /\ caller_pc = "returned"
    /\ \E i \in 1..Len(result) : Len(result[i].file_path) >= 3
    /\ Len(tasks) = 3
    /\ tasks[2].parent = Root /\ tasks[3].parent = Root
    /\ \E j, k \in 1..Len(calls) :
           j < k /\ calls[j] = tasks[3].path /\ calls[k] = tasks[2].path

----------------------------------------------------------------------------
\* The executor has a worker for every directory below the root.
PoolSuffices == Called /\ pool_size >= Cardinality(ReachableDirPaths)

\* A task that holds a worker and can neither take a result nor return.
BlockedInJoin(t) ==
    /\ t # Root
    /\ tasks[t].pc = "join"
    /\ ~ENABLED Return(t)
    /\ \A c \in TaskIds : ~ENABLED Collect(t, c)

AllWorkersBlocked ==
    /\ Busy = pool_size
    /\ \A t \in TaskIds : t # Root /\ Running(t) => BlockedInJoin(t)

\* C20 (sufficient pool size): with at least as many workers as there are
\* directories below the root, a queued task always finds a free worker, so
\* the workers are never all blocked in a join while a task is queued, a call
\* that has not finished can take a step, and file_urls returns or raises in
\* the end.
C20_SufficientPool ==
    /\ [](PoolSuffices =>
              /\ queue # <<>> => Busy < pool_size
              /\ ~(queue # <<>> /\ AllWorkersBlocked)
              /\ caller_pc = "called" => ENABLED Next)
    /\ (PoolSuffices ~> caller_pc \in {"returned", "raised"})

\* file_urls has returned from a tree with a directory inside a directory,
\* walked by a pool of two workers.
C20_Witness ==
    /\ PoolSuffices
    /\ pool_size = 2
    /\ caller_pc = "returned"
    /\ Cardinality(ReachableDirPaths) = 2
    /\ \E t \in TaskIds : tasks[t].parent # 0 /\ tasks[t].parent # Root

----------------------------------------------------------------------------
\* The paths of the entries that are neither files nor directories.
OtherPaths == {p \in DOMAIN repo_tree : repo_tree[p] \notin {"file", "dir"}}

\* An entry that is neither a file nor a directory was in a listing that
\* api.contents returned.
OtherEntryMet == \E kj \in EntriesMet : EntryMet(kj).path \in OtherPaths

\* C21 (other entry types): an entry that is neither a file nor a directory
\* is in no list of files or sub-directories of a call and in no result, no
\* task is submitted for it and no listing call is made for it, and the
\* error of a failed walk is never the error of a call for it; other than
\* the root path, only directories are ever listed.
C21_OtherTypesIgnored ==
    /\ \A t \in TaskIds :
           /\ \A i \in 1..Len(tasks[t].files) : tasks[t].files[i].type = "file"
           /\ \A i \in 1..Len(tasks[t].sub_dirs) : tasks[t].sub_dirs[i].type = "dir"
           /\ \A i \in 1..Len(tasks[t].all_sub_dir_files) :
                  tasks[t].all_sub_dir_files[i].path \notin OtherPaths
           /\ \A i \in 1..Len(tasks[t].result) :
                  tasks[t].result[i].path \notin OtherPaths
           /\ t # Root =>
                  /\ Resolve(tasks[t].path) \notin OtherPaths
                  /\ IsDir(repo_tree, Resolve(tasks[t].path))
    /\ \A i \in 1..Len(result) : result[i].file_path \notin OtherPaths
    /\ \A k \in 2..Len(calls) :
           /\ Resolve(calls[k]) \notin OtherPaths
           /\ IsDir(repo_tree, Resolve(calls[k]))
    /\ Len(tasks) - 1 <=
           Cardinality({kj \in EntriesMet : EntryMet(kj).type = "dir"})
    /\ (Called /\ ~ApiFails(root_path) /\ ReachableDirPaths \cap failing = {})
           => caller_pc # "raised"
    /\ caller_pc = "raised" =>
           \/ error.call = 1
           \/ Resolve(calls[error.call]) \in failing \ OtherPaths

\* file_urls has returned after it met an entry that is neither a file nor
\* a directory, both in the listing of the root and in the listing of a
\* sub-directory.
C21_Witness ==
    /\ caller_pc = "returned"
    /\ \E kj \in EntriesMet : kj[1] = 1 /\ EntryMet(kj).path \in OtherPaths
    /\ \E kj \in EntriesMet : kj[1] > 1 /\ EntryMet(kj).path \in OtherPaths

====
